---- MODULE Spec2Model ----
(***************************************************************************)
(* A model of radar_diagram.py: the RadarDiagram class, the RadarAxes      *)
(* projection class that radar_factory builds and registers, and draw.     *)
(*                                                                         *)
(* Numbers.  Angles are fixed-point: a full turn (2*pi) is TURN units.     *)
(* The x-coordinate NaN is the value NaN; every comparison of floats that  *)
(* the code makes goes through FloatNe, which follows IEEE-754.            *)
(* Data values are integers; the radial grid radii, which the code divides *)
(* by 2 and by 4, are kept multiplied by 4 so that they stay exact.        *)
(***************************************************************************)
EXTENDS Integers, Sequences, FiniteSets, TLC

\* ------------------------------------------------------------------ bounds
\* radar_factory is called with num_vars in 0..MaxVars (draw adds N).
MaxVars == 3
\* pyplot never closes a figure; the model stops opening them at MaxFigures.
MaxFigures == 2
\* draw is called with at most MaxSeries series in data.
MaxSeries == 3
\* The weight of the lines one axes holds in SpecLines (see Points).
MaxPoints == 6
\* The polygons one axes holds in SpecFill.
MaxPolys == 2

\* ------------------------------------------------------- program constants
\* draw: N = 28
N == 28
\* 2 * np.pi, the stop of linspace, in fixed-point units (divisible by N).
TURN == 5040
\* The float NaN as an x-coordinate.
NaN == -1

Frames == {"circle", "polygon", "square"}
Filenames == {"a.png", "b.png"}
Titles == {"T"}

\* ----------------------------------------------------------------- helpers
Range(s) == {s[i] : i \in DOMAIN s}

Last(s) == s[Len(s)]

\* x != y on floats: NaN differs from everything, itself included.
FloatNe(a, b) == a = NaN \/ b = NaN \/ a # b

\* np.linspace(start, stop, num, endpoint): div = num - 1 if endpoint else
\* num; step = (stop - start) / div; the points are start + k * step.
linspace(start, stop, num, endpoint) ==
    LET div == IF endpoint THEN num - 1 ELSE num
        step == IF div > 0 THEN (stop - start) \div div ELSE 0
    IN [k \in 1..num |-> start + (k - 1) * step]

\* np.degrees, elementwise.
degrees(theta) == [k \in DOMAIN theta |-> (theta[k] * 360) \div TURN]

\* --------------------------------------------------------------- RadarAxes
\* theta = np.linspace(0, 2 * np.pi, num_vars, endpoint=False)
ThetaEndpoint(num_vars) == linspace(0, TURN, num_vars, TRUE)

Theta(num_vars) == linspace(0, TURN, num_vars, FALSE)

\* The class statement: RadarAxes closes over num_vars, frame and theta.
RadarAxes(num_vars, frame) ==
    [name |-> "radar", num_vars |-> num_vars, frame |-> frame,
     theta |-> Theta(num_vars)]

\* A patch that falls back to the circle for an unknown frame.
gen_axes_patch_fallback(cls) ==
    IF cls.frame = "polygon"
    THEN [raised |-> "none", shape |-> "RegularPolygon",
          numVertices |-> cls.num_vars]
    ELSE [raised |-> "none", shape |-> "Circle", numVertices |-> 0]

\* _gen_axes_patch: the frame patch, or the ValueError.
gen_axes_patch(cls) ==
    IF cls.frame = "circle"
    THEN [raised |-> "none", shape |-> "Circle", numVertices |-> 0]
    ELSE IF cls.frame = "polygon"
    THEN [raised |-> "none", shape |-> "RegularPolygon",
          numVertices |-> cls.num_vars]
    ELSE [raised |-> "ValueError", shape |-> "none", numVertices |-> 0]

\* _gen_axes_spines: the spine, or the ValueError.
gen_axes_spines(cls) ==
    IF cls.frame = "circle"
    THEN [raised |-> "none", shape |-> "circle", numVertices |-> 0]
    ELSE IF cls.frame = "polygon"
    THEN [raised |-> "none", shape |-> "unit_regular_polygon",
          numVertices |-> cls.num_vars]
    ELSE [raised |-> "ValueError", shape |-> "none", numVertices |-> 0]

\* A fill that leaves the path open unless the caller closes it.
fill_open(args, kw) ==
    [args |-> args,
     closed |-> IF "closed" \in DOMAIN kw THEN kw["closed"] ELSE FALSE,
     kwargs |-> [k \in DOMAIN kw \ {"closed"} |-> kw[k]]]

\* fill(self, *args, closed=True, **kwargs): the keyword closed binds to the
\* parameter, True when absent; the other keywords are kwargs; the result
\* is the call super().fill(closed=closed, *args, **kwargs).
fill(args, kw) ==
    [args |-> args,
     closed |-> IF "closed" \in DOMAIN kw THEN kw["closed"] ELSE TRUE,
     kwargs |-> [k \in DOMAIN kw \ {"closed"} |-> kw[k]]]

\* A _close_line that appends without looking at the last point.
close_line_unconditional(line) ==
    IF Len(line.x) = 0
    THEN [raised |-> "IndexError", line |-> line]
    ELSE [raised |-> "none",
          line |-> [line EXCEPT !.x = Append(line.x, line.x[1]),
                                !.y = Append(line.y, line.y[1])]]

\* _close_line: x[0] raises IndexError on a line without points; otherwise
\* the first point is appended when x[0] != x[-1].
close_line(line) ==
    IF Len(line.x) = 0
    THEN [raised |-> "IndexError", line |-> line]
    ELSE IF FloatNe(line.x[1], Last(line.x))
    THEN [raised |-> "none",
          line |-> [line EXCEPT !.x = Append(line.x, line.x[1]),
                                !.y = Append(line.y, line.y[1])]]
    ELSE [raised |-> "none", line |-> line]

\* super().plot(*args, **kwargs): one line per (x, y) pair, added to the
\* axes as given; x and y of different lengths raise ValueError and add
\* nothing.
super_plot(pairs) ==
    IF \E i \in DOMAIN pairs : Len(pairs[i].x) # Len(pairs[i].y)
    THEN [raised |-> "ValueError", lines |-> <<>>]
    ELSE [raised |-> "none", lines |-> pairs]

\* plot: for line in lines: self._close_line(line).  The loop stops at the
\* first line whose _close_line raises; the lines after it stay as created.
plot(pairs) ==
    LET made == super_plot(pairs)
        raw == made.lines
        bad == {i \in DOMAIN raw : close_line(raw[i]).raised # "none"}
        stop == IF bad = {} THEN Len(raw) + 1
                ELSE CHOOSE i \in bad : \A j \in bad : i <= j
    IN [raised |-> IF made.raised # "none" THEN made.raised
                   ELSE IF bad # {} THEN close_line(raw[stop]).raised
                   ELSE "none",
        created |-> raw,
        lines |-> [i \in DOMAIN raw |->
                     IF i < stop THEN close_line(raw[i]).line ELSE raw[i]]]

\* set_varlabels: set_thetagrids(np.degrees(theta), labels), which sets the
\* angles as fixed tick locations and then the labels: set_xticklabels
\* raises ValueError when the labels are neither as many as the locations
\* nor none.
set_varlabels(theta, labels) ==
    IF Len(labels) # Len(theta) /\ Len(labels) # 0
    THEN [raised |-> "ValueError", varlabels |-> <<>>]
    ELSE [raised |-> "none",
          varlabels |-> <<[angles |-> degrees(theta), labels |-> labels]>>]

\* ---------------------------------------------------------------- registry
\* The projection registry, as far as the program writes it: name -> class.
EmptyRegistry == [name \in {} |-> RadarAxes(0, "circle")]

\* A registry that keeps the class it already holds under the name.
register_projection_first(reg, cls) ==
    IF cls.name \in DOMAIN reg THEN reg
    ELSE [name \in DOMAIN reg \cup {cls.name} |->
            IF name = cls.name THEN cls ELSE reg[name]]

\* register_projection(RadarAxes): the class is stored under cls.name.
register_projection(reg, cls) ==
    [name \in DOMAIN reg \cup {cls.name} |->
        IF name = cls.name THEN cls ELSE reg[name]]

\* ------------------------------------------------------------------- state
VARIABLES
    registry,   \* the projection registry: name -> class
    figures,    \* the number of figures pyplot holds open
    axes,       \* <<>> or <<ax>>: the axes the caller holds
    files,      \* the files savefig has written
    returned,   \* the value the last radar_factory call returned
    last        \* what the last call did

vars == <<registry, figures, axes, files, returned, last>>

\* The axes an instance of cls starts as: PolarAxes.__init__ asks the class
\* for its spines and its patch, and either call may raise.
NewAxes(cls) ==
    [num_vars |-> cls.num_vars, frame |-> cls.frame, theta |-> cls.theta,
     spine |-> gen_axes_spines(cls), patch |-> gen_axes_patch(cls),
     lines |-> <<>>, polys |-> <<>>, varlabels |-> <<>>]

AxesRaised(ax) ==
    IF ax.spine.raised # "none" THEN ax.spine.raised ELSE ax.patch.raised

Init ==
    /\ registry = EmptyRegistry
    /\ figures = 0
    /\ axes = <<>>
    /\ files = {}
    /\ returned = <<>>
    /\ last = [op |-> "init"]

\* radar_factory(num_vars, frame)
RadarFactory(num_vars, frame) ==
    /\ registry' = register_projection(registry, RadarAxes(num_vars, frame))
    /\ returned' = Theta(num_vars)
    /\ last' = [op |-> "radar_factory", num_vars |-> num_vars,
                frame |-> frame, raised |-> "none"]
    /\ UNCHANGED <<figures, axes, files>>

\* plt.subplots(subplot_kw=dict(projection='radar')) by a caller of
\* radar_factory: a new figure, then an axes of the registered class.
CreateAxes ==
    /\ "radar" \in DOMAIN registry
    /\ figures < MaxFigures
    /\ LET ax == NewAxes(registry["radar"])
       IN /\ figures' = figures + 1
          /\ axes' = IF AxesRaised(ax) = "none" THEN <<ax>> ELSE axes
          /\ last' = [op |-> "subplots", raised |-> AxesRaised(ax),
                      num_vars |-> ax.num_vars, frame |-> ax.frame,
                      theta |-> ax.theta]
    /\ UNCHANGED <<registry, files, returned>>

\* ------------------------------------------------------------------- draw
\* The inputs of draw.  A series is its first value followed by one value
\* repeated.  The series of GoodSeries are as long as the angles (N);
\* ShortSeries is not, and comes alone or after a good one (a ragged data).
Series(len, first, rest) == [k \in 1..len |-> IF k = 1 THEN first ELSE rest]

GoodSeries == {Series(N, p[1], p[2]) : p \in {<<2, 3>>, <<-2, -1>>}}

ShortSeries == Series(N - 1, 0, 3)

DataSet ==
    UNION {[1..n -> GoodSeries] : n \in 0..MaxSeries}
        \cup {<<ShortSeries>>} \cup {<<g, ShortSeries>> : g \in GoodSeries}

LabelSet == {[k \in 1..n |-> k] : n \in {N - 1, N}}

Min(S) == CHOOSE v \in S : \A w \in S : v <= w

Max(S) == CHOOSE v \in S : \A w \in S : v >= w

\* The values of np.asarray(data), flattened.
Values(data) == UNION {Range(data[i]) : i \in DOMAIN data}

\* np.average(data), np.min(data), np.max(data): a ragged data raises
\* ValueError in np.average, an empty one in np.min.
DataRaised(data) ==
    IF \E i, j \in DOMAIN data : Len(data[i]) # Len(data[j])
    THEN "ValueError"
    ELSE IF Values(data) = {} THEN "ValueError" ELSE "none"

\* The second radius read as min + max / 2.
rgrids4_precedence(data) ==
    LET mn == Min(Values(data))
        mx == Max(Values(data))
    IN <<4 * mn, 4 * mn + 2 * mx, 3 * mx, 4 * mx>>

\* The radii given to set_rgrids, each multiplied by 4:
\* (min, (min + max) / 2, max * 3 / 4, max).
rgrids4(data) ==
    LET mn == Min(Values(data))
        mx == Max(Values(data))
    IN <<4 * mn, 2 * (mn + mx), 3 * mx, 4 * mx>>

colors == <<"b", "r">>

\* An axis count taken from the labels instead of the constant.
DrawFactoryArgsFromLabel(data, label) ==
    [num_vars |-> Len(label), frame |-> "polygon"]

\* N = 28; theta = self.radar_factory(N, frame='polygon')
DrawFactoryArgs(data, label) == [num_vars |-> N, frame |-> "polygon"]

\* for ind, i in enumerate(data): axs.plot(theta, i, color=colors[ind])
\* from series ind on: the lines added, the series plotted, what was raised.
RECURSIVE PlotLoop(_, _, _)
PlotLoop(theta, data, ind) ==
    IF ind > Len(data)
    THEN [raised |-> "none", lines |-> <<>>, plotted |-> <<>>]
    ELSE IF ind > Len(colors)
    THEN [raised |-> "IndexError", lines |-> <<>>, plotted |-> <<>>]
    ELSE LET p == plot(<<[x |-> theta, y |-> data[ind],
                          color |-> colors[ind]]>>)
         IN IF p.raised # "none"
            THEN [raised |-> p.raised, lines |-> p.lines, plotted |-> <<>>]
            ELSE LET r == PlotLoop(theta, data, ind + 1)
                 IN [raised |-> r.raised, lines |-> p.lines \o r.lines,
                     plotted |-> <<ind>> \o r.plotted]

\* fig.savefig(filename), once.
savefig(written, filename) == written \cup {filename}

\* A draw that leaves the figure out of pyplot's open figures again.
FiguresAfterDrawClosed(open) == open

\* plt.subplots in draw opens a figure that nothing closes.
FiguresAfterDraw(open) == open + 1

\* draw(filename, data, label, title)
Draw(filename, data, label, title) ==
    /\ figures < MaxFigures
    /\ \E args \in {DrawFactoryArgs(data, label)} :
       \E reg \in {register_projection(registry,
                                       RadarAxes(args.num_vars, args.frame))} :
       \E ax \in {NewAxes(reg["radar"])} :
       \E loop \in {PlotLoop(ax.theta, data, 1)} :
       \E labelled \in {set_varlabels(ax.theta, label)} :
       \E atGrids \in {AxesRaised(ax) = "none" /\ DataRaised(data) = "none"} :
       \E raised \in {IF AxesRaised(ax) # "none" THEN AxesRaised(ax)
                      ELSE IF ~atGrids THEN DataRaised(data)
                      ELSE IF loop.raised # "none" THEN loop.raised
                      ELSE labelled.raised} :
          /\ registry' = reg
          /\ returned' = ax.theta
          /\ figures' = FiguresAfterDraw(figures)
          /\ axes' = IF AxesRaised(ax) # "none" THEN axes
                     ELSE <<[ax EXCEPT
                              !.lines = IF atGrids THEN loop.lines ELSE <<>>,
                              !.varlabels =
                                  IF atGrids /\ loop.raised = "none"
                                  THEN labelled.varlabels ELSE <<>>]>>
          /\ files' = IF raised = "none" THEN savefig(files, filename)
                      ELSE files
          /\ last' = [op |-> "draw", raised |-> raised,
                      filename |-> filename, data |-> data,
                      nlabels |-> Len(label),
                      rgrids |-> IF atGrids THEN rgrids4(data) ELSE <<>>,
                      plotted |-> IF atGrids THEN loop.plotted ELSE <<>>,
                      saves |-> IF raised = "none" THEN <<filename>>
                                ELSE <<>>,
                      title |-> IF raised = "none" THEN <<title>> ELSE <<>>]

Next ==
    \/ \E n \in 0..MaxVars, f \in Frames : RadarFactory(n, f)
    \/ CreateAxes
    \/ \E filename \in Filenames, data \in DataSet, label \in LabelSet,
          title \in Titles :
            Draw(filename, data, label, title)

Spec == Init /\ [][Next]_vars

\* ------------------------------------------------- plot and _close_line
\* An axes of the registered class, as a caller of radar_factory holds it.
InitAxes ==
    /\ \E f \in {"circle", "polygon"} :
        /\ registry = register_projection(EmptyRegistry, RadarAxes(MaxVars, f))
        /\ axes = <<NewAxes(registry["radar"])>>
    /\ figures = 1
    /\ files = {}
    /\ returned = Theta(MaxVars)
    /\ last = [op |-> "subplots", raised |-> "none"]

XVals == {NaN, 0, 1}

YVals == {0, 1}

LinesOfLen(n) ==
    {[x |-> xs, y |-> ys] : xs \in [1..n -> XVals], ys \in [1..n -> YVals]}

\* What the lines weigh against MaxPoints: a line's points and one more, so
\* that lines without points are bounded as well.
RECURSIVE Points(_)
Points(lines) ==
    IF lines = <<>> THEN 0 ELSE Len(Head(lines).x) + 1 + Points(Tail(lines))

\* The room the axes has left.
Room == MaxPoints - Points(axes[1].lines)

\* ax.plot(x1, y1, ...): the lines are added to the axes and closed.
Plot(pairs) ==
    /\ \E p \in {plot(pairs)} :
        /\ axes' = <<[axes[1] EXCEPT !.lines = @ \o p.lines]>>
        /\ last' = [op |-> "plot", raised |-> p.raised,
                    first |-> Len(axes[1].lines) + 1, created |-> p.created]
    /\ UNCHANGED <<registry, figures, files, returned>>

\* ax._close_line(line) on a line the axes holds.
CloseLine(i) ==
    /\ i \in DOMAIN axes[1].lines
    /\ \E c \in {close_line(axes[1].lines[i])} :
        /\ Len(c.line.x) = Len(axes[1].lines[i].x) \/ Room > 0
        /\ axes' = <<[axes[1] EXCEPT !.lines[i] = c.line]>>
        /\ last' = [op |-> "_close_line", raised |-> c.raised,
                    first |-> i, created |-> <<axes[1].lines[i]>>]
    /\ UNCHANGED <<registry, figures, files, returned>>

\* A line of n points needs room for them, its closing point and itself.
NextLines ==
    \/ \E n \in 0..(Room - 2) : \E l \in LinesOfLen(n) : Plot(<<l>>)
    \/ \E n1 \in 0..(Room - 4) : \E l1 \in LinesOfLen(n1) :
       \E n2 \in 0..(Room - 4 - n1) : \E l2 \in LinesOfLen(n2) :
            Plot(<<l1, l2>>)
    \/ \E i \in 1..MaxPoints : CloseLine(i)

SpecLines == InitAxes /\ [][NextLines]_vars

\* -------------------------------------------------------------------- fill
FillArgs == {<<"theta", "d">>, <<"theta", "d", "b">>}

FillKeywords == UNION {[D -> BOOLEAN] : D \in SUBSET {"closed", "visible"}}

\* ax.fill(*args, **kw): the polygon of the underlying call joins the axes.
Fill(args, kw) ==
    /\ Len(axes[1].polys) < MaxPolys
    /\ axes' = <<[axes[1] EXCEPT !.polys = Append(@, fill(args, kw))]>>
    /\ last' = [op |-> "fill", raised |-> "none", args |-> args, kw |-> kw]
    /\ UNCHANGED <<registry, figures, files, returned>>

NextFill == \E args \in FillArgs, kw \in FillKeywords : Fill(args, kw)

SpecFill == InitAxes /\ [][NextFill]_vars

\* ================================================================== claims
IsClosed(line) ==
    Last(line.x) = line.x[1] /\ Last(line.y) = line.y[1]

\* The line of the axes that line i of the last call became.
After(i) == axes[1].lines[last.first + i - 1]

\* The lines of the last call that _close_line returned from.
Processed ==
    {i \in DOMAIN last.created :
        \A j \in 1..i : Len(last.created[j].x) > 0}

\* C1: once plot has returned, every line it created (from a series of at
\* least one point) ends in its first point, in x and in y.
PlotClosesEveryLine ==
    (last.op = "plot" /\ last.raised = "none") =>
        \A i \in DOMAIN last.created :
            Len(last.created[i].x) >= 1 => IsClosed(After(i))

\* _close_line left the points of line i in place and added at most one
\* point, a copy of the first, at the end.
OnlyAppended(i) ==
    LET before == last.created[i]
        after == After(i)
        n == Len(before.x)
    IN /\ Len(after.x) \in {n, n + 1}
       /\ Len(after.y) = Len(after.x)
       /\ SubSeq(after.x, 1, n) = before.x
       /\ SubSeq(after.y, 1, n) = before.y
       /\ Len(after.x) = n + 1 =>
            (Last(after.x) = before.x[1] /\ Last(after.y) = before.y[1])

\* C10, as claimed: _close_line only appends (at most one point, a copy of
\* the first, the others unchanged), and a second application to the same
\* line changes nothing.
CloseLineAppendsOnceIdempotent ==
    last.op \in {"plot", "_close_line"} =>
        \A i \in Processed :
            /\ OnlyAppended(i)
            /\ close_line(After(i)).line = After(i)

\* C10, amended: _close_line only appends (at most one point, a copy of the
\* first, the others unchanged); a second application changes nothing when
\* the line's first x is a number, and appends the first point once more
\* when it is NaN.
CloseLineAppendsIdempotentUnlessNaN ==
    last.op \in {"plot", "_close_line"} =>
        \A i \in Processed :
            /\ OnlyAppended(i)
            /\ After(i).x[1] # NaN => close_line(After(i)).line = After(i)
            /\ After(i).x[1] = NaN =>
                 Len(close_line(After(i)).line.x) = Len(After(i).x) + 1

\* C10 witness: plot has appended the closing point to a line that was open
\* and whose first x is a number.
CloseLineAppendedWitness ==
    /\ last.op = "plot"
    /\ last.raised = "none"
    /\ \E i \in DOMAIN last.created :
        /\ Len(last.created[i].x) >= 2
        /\ last.created[i].x[1] # NaN
        /\ Len(After(i).x) = Len(last.created[i].x) + 1

\* C6: fill passes closed=True when the caller gives no closed, the
\* caller's value when it gives one, and every other argument unchanged.
FillClosedByDefault ==
    last.op = "fill" =>
        LET call == Last(axes[1].polys)
        IN /\ call.args = last.args
           /\ "closed" \notin DOMAIN last.kw => call.closed = TRUE
           /\ "closed" \in DOMAIN last.kw => call.closed = last.kw["closed"]
           /\ DOMAIN call.kwargs = DOMAIN last.kw \ {"closed"}
           /\ \A k \in DOMAIN call.kwargs : call.kwargs[k] = last.kw[k]

\* C6 witness: a fill without closed, with another keyword, was closed.
FillDefaultWitness ==
    /\ last.op = "fill"
    /\ DOMAIN last.kw = {"visible"}
    /\ Last(axes[1].polys).closed = TRUE

\* C2: radar_factory returns num_vars angles, the k-th being
\* k * (TURN / num_vars) for k = 0..num_vars-1: the first is 0, they are
\* pairwise distinct, and the full turn is not among them.
AnglesEvenlySpaced ==
    last.op = "radar_factory" =>
        /\ Len(returned) = last.num_vars
        /\ \A k \in 1..last.num_vars :
             returned[k] = (k - 1) * (TURN \div last.num_vars)
        /\ last.num_vars > 0 => returned[1] = 0
        /\ \A j, k \in DOMAIN returned : j # k => returned[j] # returned[k]
        /\ TURN \notin Range(returned)

\* C2 witness: radar_factory has returned three angles or more.
AnglesWitness ==
    last.op = "radar_factory" /\ last.num_vars >= 3 /\ Len(returned) >= 3

KnownFrames == {"circle", "polygon"}

\* C5: for a frame other than 'circle' and 'polygon' radar_factory still
\* registers the class and returns the angles; _gen_axes_patch and
\* _gen_axes_spines of that class both raise ValueError, so creating an
\* axes does; for 'circle' and 'polygon' neither raises.
UnknownFrameRaisesAtAxesCreation ==
    /\ last.op = "radar_factory" =>
         /\ last.raised = "none"
         /\ "radar" \in DOMAIN registry
         /\ registry["radar"].frame = last.frame
         /\ Len(returned) = last.num_vars
    /\ "radar" \in DOMAIN registry =>
         LET cls == registry["radar"]
             expected == IF cls.frame \in KnownFrames THEN "none"
                         ELSE "ValueError"
         IN /\ gen_axes_patch(cls).raised = expected
            /\ gen_axes_spines(cls).raised = expected
    /\ last.op = "subplots" =>
         last.raised = IF last.frame \in KnownFrames THEN "none"
                       ELSE "ValueError"

\* C5 witness: creating an axes of a class with an unknown frame has raised.
UnknownFrameWitness ==
    /\ last.op = "subplots"
    /\ last.frame \notin KnownFrames
    /\ last.raised = "ValueError"

\* C7: draw builds a polygon-framed chart of N = 28 axes whatever the
\* lengths of the series and of the labels: the angles, the frame polygon
\* and the spine polygon have 28 entries.
DrawAlways28Polygon ==
    last.op = "draw" =>
        /\ registry["radar"].num_vars = 28
        /\ registry["radar"].frame = "polygon"
        /\ Len(returned) = 28
        /\ axes # <<>>
        /\ Len(axes[1].theta) = 28
        /\ axes[1].patch.shape = "RegularPolygon"
        /\ axes[1].patch.numVertices = 28
        /\ axes[1].spine.shape = "unit_regular_polygon"
        /\ axes[1].spine.numVertices = 28

\* C7 witness: a draw whose series and labels are not 28 long.
DrawOtherLengthsWitness ==
    /\ last.op = "draw"
    /\ last.nlabels # 28
    /\ \E i \in DOMAIN last.data : Len(last.data[i]) # 28

\* C8: the name 'radar' refers to the class of the latest radar_factory
\* call, and an axes created with projection='radar' has the num_vars,
\* frame and angles of that class.
LastWriterWins ==
    [][/\ last'.op = "radar_factory" =>
            registry'["radar"] = RadarAxes(last'.num_vars, last'.frame)
       /\ last'.op = "draw" =>
            registry'["radar"] = RadarAxes(N, "polygon")
       /\ last'.op = "subplots" =>
            /\ registry' = registry
            /\ last'.num_vars = registry["radar"].num_vars
            /\ last'.frame = registry["radar"].frame
            /\ last'.theta = registry["radar"].theta
            /\ last'.raised = "none" =>
                 /\ axes'[1].num_vars = registry["radar"].num_vars
                 /\ axes'[1].frame = registry["radar"].frame
                 /\ axes'[1].theta = registry["radar"].theta]_vars

\* C8 witness: after a draw (which registered 28 axes) and a later
\* radar_factory call, an axes was created with the later call's class.
LaterClassWitness ==
    /\ files # {}
    /\ last.op = "subplots"
    /\ last.raised = "none"
    /\ last.num_vars # N
    /\ axes[1].num_vars = last.num_vars
    /\ Len(axes[1].theta) = last.num_vars

\* C3, as claimed: nothing outlives a call, neither a registry entry nor
\* an open figure.
NoPersistentState ==
    registry = EmptyRegistry /\ figures = 0

\* C3, amended: the registry entry 'radar' and the open figures outlive the
\* calls: every radar_factory and every draw leaves 'radar' registered, no
\* call removes it, every draw leaves one more figure open and no call
\* closes a figure.
RegistryAndFiguresPersist ==
    [][/\ "radar" \in DOMAIN registry => "radar" \in DOMAIN registry'
       /\ last'.op \in {"radar_factory", "draw"} =>
            "radar" \in DOMAIN registry'
       /\ figures' >= figures
       /\ last'.op = "draw" => figures' = figures + 1]_vars

\* C3 witness: two draws have left two figures open and the class registered.
TwoFiguresOpenWitness ==
    /\ last.op = "draw"
    /\ figures = 2
    /\ Cardinality(files) = 2
    /\ "radar" \in DOMAIN registry

\* The inputs draw's library calls accept: at least one series, every
\* series and the labels as long as the angles.
WellFormed(data, nlabels) ==
    /\ Len(data) >= 1
    /\ \A i \in DOMAIN data : Len(data[i]) = N
    /\ nlabels = N

\* C4: draw plots every series of data, in order, and then saves one
\* figure to filename, for any number of series.
DrawPlotsAllThenSaves ==
    (last.op = "draw" /\ WellFormed(last.data, last.nlabels)) =>
        /\ last.raised = "none"
        /\ last.plotted = [i \in 1..Len(last.data) |-> i]
        /\ Len(axes[1].lines) = Len(last.data)
        /\ last.saves = <<last.filename>>
        /\ last.filename \in files

\* C9, as claimed: the four radii are in non-decreasing order and lie in
\* [min(data), max(data)] (all multiplied by 4).
RGridsOrderedInRange ==
    (last.op = "draw" /\ last.rgrids # <<>>) =>
        LET r == last.rgrids
            mn == Min(Values(last.data))
            mx == Max(Values(last.data))
        IN /\ r[1] <= r[2] /\ r[2] <= r[3] /\ r[3] <= r[4]
           /\ \A k \in 1..4 : 4 * mn <= r[k] /\ r[k] <= 4 * mx

\* C9, amended: the first radius is min, the last is max and (min+max)/2
\* lies between them; the four are in non-decreasing order, and 3*max/4 in
\* [min, max], exactly when max >= 0 and 2*min <= max.
RGridsOrderedIffMinAtMostHalfMax ==
    (last.op = "draw" /\ last.rgrids # <<>>) =>
        LET r == last.rgrids
            mn == Min(Values(last.data))
            mx == Max(Values(last.data))
        IN /\ r[1] = 4 * mn /\ r[4] = 4 * mx
           /\ r[1] <= r[2] /\ r[2] <= r[4]
           /\ (r[2] <= r[3] /\ r[3] <= r[4]) <=> (mx >= 0 /\ 2 * mn <= mx)
           /\ (mx >= 0 /\ 2 * mn <= mx) => (r[1] <= r[3] /\ r[3] <= r[4])

\* C9 witness: a draw whose radii are in order (min -2, max 3).
RGridsOrderedWitness ==
    /\ last.op = "draw"
    /\ last.rgrids = <<-8, 2, 9, 12>>

====
